---- MODULE Spec2Model ----
(***************************************************************************)
(* LanePlanner of selfdrive/controls/lib/lane_planner.py as a state        *)
(* machine: one object (self), and the two operations parse_model and      *)
(* get_d_path that a control loop calls on it.                             *)
(*                                                                         *)
(* Numbers.  The code computes in float64.  The model computes on grids:   *)
(*   - lengths (lateral offsets, lane width, standard deviations, the      *)
(*     curvature bias) in 1/U metre, U = 1000;                             *)
(*   - times of the trajectory axis in 1/U second;                         *)
(*   - confidences, rightRatio and the interp weights in 1/Q, Q = 100, so  *)
(*     the un-normalised weights l_prob, r_prob are in 1/(Q*Q);            *)
(*   - the normalised weights and d_prob as exact fractions [n, d]; a      *)
(*     fraction with d = 0 is a non-finite float (nan, inf).               *)
(* Every division that does not come out on the grid is rounded to the     *)
(* nearest grid point (RDiv).  A non-finite sample of the axis is NaN.     *)
(***************************************************************************)
EXTENDS Integers, Sequences, FiniteSets, TLC

U == 10^3
Q == 10^2
NaN == 2^30

\* ---------------------------------------------------------------- bounds
MaxCycles == 2      \* get_d_path calls in one behaviour

\* ------------------------------------------------------ program constants
TRAJECTORY_SIZE == 33
PATH_OFFSET == 0
CAMERA_OFFSET == 40
KEEP_MIN_DISTANCE_FROM_LANE == 1300
RC == 995           \* FirstOrderFilter(3.2, 9.95, DT_MDL): rc, in 1/100 s
DT_MDL == 5         \* model period 0.05 s, in 1/100 s
laneChangeLeft == 3
laneChangeRight == 4

\* ------------------------------------------------------------ arithmetic
\* a / b rounded to the nearest integer, b # 0
RDiv(a, b) == IF b > 0 THEN (2 * a + b) \div (2 * b) ELSE (-2 * a - b) \div (-2 * b)

\* Python's built-ins
min(a, b) == IF b < a THEN b ELSE a
max(a, b) == IF b > a THEN b ELSE a
abs(x) == IF x < 0 THEN -x ELSE x

isfinite(x) == x # NaN

\* a Python / capnp sequence is indexed from 0
At(seq, i) == seq[i + 1]
HasIndex(seq, i) == i + 1 <= Len(seq)

clamp(num, min_value, max_value) == max(min(num, max_value), min_value)

\* math.exp at the points the curvature grid needs, argument and value in 1/U
exp(z) ==
  CASE z = -4000 -> 18
    [] z = 0 -> 1000
    [] z = 4000 -> 54598

sigmoid_rising(x, scale, offset) == RDiv(U * U, U + exp(-(x * scale))) + offset
sigmoid(x, scale, offset) == RDiv(U * U, U + exp(x * scale)) + offset

\* numpy.interp: xp increasing, the end values held outside [xp[0], xp[-1]]
np_interp(x, xp, fp) ==
  IF x <= xp[1] THEN fp[1]
  ELSE IF x >= xp[Len(xp)] THEN fp[Len(fp)]
  ELSE LET j == CHOOSE k \in 1..(Len(xp) - 1) : xp[k] <= x /\ x < xp[k + 1]
       IN fp[j] + RDiv((fp[j + 1] - fp[j]) * (x - xp[j]), xp[j + 1] - xp[j])

\* common.numpy_fast.interp on a scalar
interp(x, xp, fp) == np_interp(x, xp, fp)

\* FirstOrderFilter.update: x = (1 - alpha) * x + alpha * u, alpha = dt / (rc + dt)
FirstOrderFilter_update(x, u) == RDiv(RC * x + DT_MDL * u, RC + DT_MDL)

\* numpy on arrays: a + c, (a + b) / 2, isfinite(a), a[mask]
shift(a, c) == [i \in 1..Len(a) |-> a[i] + c]
mean2(a, b) ==
  [i \in 1..Len(a) |-> IF isfinite(a[i]) /\ isfinite(b[i]) THEN RDiv(a[i] + b[i], 2) ELSE NaN]
finite_mask(a) == [i \in 1..Len(a) |-> isfinite(a[i])]
Masked(a, mask) ==
  LET F[i \in 0..Len(a)] ==
        IF i = 0 THEN <<>> ELSE IF mask[i] THEN Append(F[i - 1], a[i]) ELSE F[i - 1]
  IN F[Len(a)]

Rat(n, d) == [n |-> n, d |-> d]
NaNRat == Rat(0, 0)

\* ------------------------------------------------------------ the object
VARIABLES self, call, raised, cycles

vars == <<self, call, raised, cycles>>

zeros(n) == [i \in 1..n |-> 0]

\* LanePlanner.__init__
LanePlanner ==
  [ ll_t |-> zeros(TRAJECTORY_SIZE),
    ll_x |-> zeros(TRAJECTORY_SIZE),
    lll_y |-> zeros(TRAJECTORY_SIZE),
    rll_y |-> zeros(TRAJECTORY_SIZE),
    le_y |-> zeros(TRAJECTORY_SIZE),
    re_y |-> zeros(TRAJECTORY_SIZE),
    lane_width_estimate |-> 3200,
    lane_width |-> 3200,
    lane_change_multiplier |-> 1,
    lll_prob |-> 0,
    rll_prob |-> 0,
    d_prob |-> Rat(0, 1),
    lll_std |-> 0,
    rll_std |-> 0,
    l_lane_change_prob |-> 0,
    r_lane_change_prob |-> 0,
    camera_offset |-> -CAMERA_OFFSET,
    path_offset |-> -PATH_OFFSET ]

\* how a call ends: with the object as it left it, normally or by an exception
Return(s) == [self |-> s, raised |-> "none"]
Raise(s, e) == [self |-> s, raised |-> e]

\* ------------------------------------------------------------ parse_model
\* lines 50-62: the lane lines
ParseLaneLines(s, md) ==
  LET lane_lines == md.laneLines
  IN IF Len(lane_lines) = 4 /\ Len(At(lane_lines, 0).t) = TRAJECTORY_SIZE
     THEN LET t1 == At(lane_lines, 1).t
              t2 == At(lane_lines, 2).t
          IN IF Len(t1) # Len(t2)
             THEN Raise(s, "ValueError")   \* numpy cannot add the two shapes
             ELSE Return(
               [s EXCEPT
                  !.ll_t = mean2(t1, t2),
                  !.ll_x = At(lane_lines, 1).x,
                  !.lll_y = shift(At(lane_lines, 1).y, s.camera_offset),
                  !.rll_y = shift(At(lane_lines, 2).y, s.camera_offset),
                  !.lll_prob = At(md.laneLineProbs, 1),
                  !.rll_prob = At(md.laneLineProbs, 2),
                  !.lll_std = At(md.laneLineStds, 1),
                  !.rll_std = At(md.laneLineStds, 2)])
     ELSE Return(s)

\* lines 64-69: the road edges
ParseRoadEdges(s, md) ==
  LET edges == md.roadEdges
      stds == md.roadEdgeStds
  IN IF ~HasIndex(edges, 0)
     THEN Raise(s, "IndexError")
     ELSE IF Len(At(edges, 0).t) = TRAJECTORY_SIZE
     THEN LET s1 == [s EXCEPT !.le_y = shift(At(edges, 0).y, RDiv(At(stds, 0) * 4, 10))]
          IN IF ~HasIndex(edges, 1)
             THEN Raise(s1, "IndexError")
             ELSE Return(
               [s1 EXCEPT !.re_y = shift(At(edges, 1).y, -RDiv(At(stds, 1) * 4, 10))])
     ELSE Return([s EXCEPT !.le_y = s.lll_y, !.re_y = s.rll_y])

\* lines 71-74: the lane-change intent
ParseDesire(s, md) ==
  LET desire_state == md.meta.desireState
  IN IF Len(desire_state) # 0
     THEN IF ~HasIndex(desire_state, laneChangeLeft)
          THEN Raise(s, "IndexError")
          ELSE LET s1 == [s EXCEPT !.l_lane_change_prob = At(desire_state, laneChangeLeft)]
               IN IF ~HasIndex(desire_state, laneChangeRight)
                  THEN Raise(s1, "IndexError")
                  ELSE Return([s1 EXCEPT
                         !.r_lane_change_prob = At(desire_state, laneChangeRight)])
     ELSE Return(s)

\* parse_model as it would be if it also cleared the combined confidence
ParseModel_clears_d_prob(s, md) ==
  LET a == ParseLaneLines(s, md)
  IN IF a.raised # "none" THEN a
     ELSE LET b == ParseRoadEdges(a.self, md)
          IN IF b.raised # "none" THEN b
             ELSE LET c == ParseDesire(b.self, md)
                  IN [c EXCEPT !.self.d_prob = Rat(0, 1)]

\* LanePlanner.parse_model(md)
ParseModel(s, md) ==
  LET a == ParseLaneLines(s, md)
  IN IF a.raised # "none" THEN a
     ELSE LET b == ParseRoadEdges(a.self, md)
          IN IF b.raised # "none" THEN b
             ELSE ParseDesire(b.self, md)

\* --------------------------------------------- the perception results fed
Ramp(n, y0, dy) == [i \in 1..n |-> y0 + dy * (i - 1)]

\* the axis of a line: "ok", "nan0" (first sample not finite), "nanTail"
Axis(n, kind) ==
  [i \in 1..n |->
     IF (kind = "nan0" /\ i = 1) \/ (kind = "nanTail" /\ i > 20) THEN NaN
     ELSE 300 * (i - 1)]

Line(n, kind, y0, dy) == [t |-> Axis(n, kind), x |-> Ramp(n, 0, 3000), y |-> Ramp(n, y0, dy)]

\* sh: line count and sample counts; g: the inner lines' near offsets; c: their
\* confidences and standard deviations; e: the road edges; ds: the intent vector
MD(sh, g, c, e, ds, kind) ==
  [ laneLines |-> SubSeq(<< Line(sh.n0, kind, g.yl - 3500, g.dy),
                            Line(sh.n1, kind, g.yl, g.dy),
                            Line(sh.n2, kind, g.yr, g.dy),
                            Line(sh.n0, kind, g.yr + 3500, g.dy) >>, 1, sh.nl),
    laneLineProbs |-> SubSeq(<<30, c.pl, c.pr, 30>>, 1, sh.nl),
    laneLineStds |-> SubSeq(<<400, c.sl, c.sr, 400>>, 1, sh.nl),
    roadEdges |-> [i \in 1..Len(e) |-> [t |-> Axis(e[i].n, "ok"), y |-> Ramp(e[i].n, e[i].y0, g.dy)]],
    roadEdgeStds |-> [i \in 1..Len(e) |-> e[i].std],
    meta |-> [desireState |-> ds] ]

Shape(nl, n0, n1, n2) == [nl |-> nl, n0 |-> n0, n1 |-> n1, n2 |-> n2]
ShapeOK == Shape(4, TRAJECTORY_SIZE, TRAJECTORY_SIZE, TRAJECTORY_SIZE)
Shapes ==
  { ShapeOK,
    Shape(3, TRAJECTORY_SIZE, TRAJECTORY_SIZE, TRAJECTORY_SIZE),
    Shape(4, 0, TRAJECTORY_SIZE, TRAJECTORY_SIZE),
    Shape(4, TRAJECTORY_SIZE, TRAJECTORY_SIZE - 1, TRAJECTORY_SIZE - 1),
    Shape(4, TRAJECTORY_SIZE, TRAJECTORY_SIZE, TRAJECTORY_SIZE - 1) }

Geo(yl, yr, dy) == [yl |-> yl, yr |-> yr, dy |-> dy]
GeoCentred == Geo(-1460, 1540, 10)
GeoWide == Geo(-1960, 2040, 10)
GeoSameSide == Geo(1040, 3040, 10)
GeoCoincident == Geo(40, 40, 10)

Conf(pl, pr, sl, sr) == [pl |-> pl, pr |-> pr, sl |-> sl, sr |-> sr]
ConfGood == Conf(90, 90, 100, 100)
Confs == {ConfGood, Conf(0, 0, 800, 900), Conf(90, 90, 100, 900), Conf(90, 90, 900, 100)}

Edge(n, y0, std) == [n |-> n, y0 |-> y0, std |-> std]
EdgesWide == <<Edge(TRAJECTORY_SIZE, -3000, 500), Edge(TRAJECTORY_SIZE, 3000, 500)>>
EdgeSets ==
  { EdgesWide,
    <<Edge(TRAJECTORY_SIZE, -1600, 250), Edge(TRAJECTORY_SIZE, 1600, 250)>>,
    <<>>,
    <<Edge(TRAJECTORY_SIZE, -3000, 500)>>,
    <<Edge(TRAJECTORY_SIZE - 1, -3000, 500)>>,
    <<Edge(TRAJECTORY_SIZE - 1, -3000, 500), Edge(TRAJECTORY_SIZE - 1, 3000, 500)>> }

DesireFull == <<0, 0, 0, 10, 20, 0, 0, 0>>
Desires == {DesireFull, <<>>, <<0, 0, 0, 10>>}

PerceptionResults ==
  {MD(ShapeOK, g, c, EdgesWide, DesireFull, "ok") : g \in {GeoCentred, GeoWide}, c \in Confs}
  \cup {MD(ShapeOK, GeoSameSide, c, EdgesWide, DesireFull, "ok") :
          c \in {ConfGood, Conf(90, 90, 900, 100)}}
  \cup {MD(ShapeOK, GeoCoincident, ConfGood, EdgesWide, DesireFull, "ok")}
  \cup {MD(sh, GeoCentred, ConfGood, EdgesWide, DesireFull, "ok") : sh \in Shapes}
  \cup {MD(ShapeOK, GeoWide, ConfGood, e, DesireFull, "ok") : e \in EdgeSets}
  \cup {MD(ShapeOK, GeoCentred, ConfGood, EdgesWide, ds, "ok") : ds \in Desires}
  \cup {MD(ShapeOK, GeoCentred, ConfGood, EdgesWide, DesireFull, kind) : kind \in {"nan0", "nanTail"}}


\* ------------------------------------------------------------- get_d_path
\* lines 79-92: the two weights.  total is the sum before normalisation, in
\* 1/(Q*Q), or NaN; l_prob and r_prob are the weights after it, as fractions.
\* distance = 0 makes right_ratio inf or nan, and total, l_prob, r_prob nan.
LaneProbs(s) ==
  LET distance == At(s.rll_y, 0) - At(s.lll_y, 0)
  IN IF distance = 0
     THEN [total |-> NaN, l_prob |-> NaNRat, r_prob |-> NaNRat]
     ELSE LET right_ratio == RDiv(At(s.rll_y, 0) * Q, distance)
              l_prob == (right_ratio + RDiv(s.lll_prob * 4, 10))
                          * interp(s.lll_std, <<0, 800>>, <<Q, 1>>)
              r_prob == ((Q - right_ratio) + RDiv(s.rll_prob * 4, 10))
                          * interp(s.rll_std, <<0, 800>>, <<Q, 1>>)
              total_prob == l_prob + r_prob
          IN IF total_prob < Q
             THEN [total |-> total_prob, l_prob |-> Rat(0, 1), r_prob |-> Rat(0, 1)]
             ELSE [total |-> total_prob, l_prob |-> Rat(l_prob, total_prob),
                   r_prob |-> Rat(r_prob, total_prob)]

\* line 95
CurrentLaneWidth_unclamped(s) ==
  abs(min(At(s.rll_y, 0), At(s.re_y, 0)) - max(At(s.lll_y, 0), At(s.le_y, 0)))
CurrentLaneWidth(s) ==
  clamp(abs(min(At(s.rll_y, 0), At(s.re_y, 0)) - max(At(s.lll_y, 0), At(s.le_y, 0))),
        2600, 4000)

\* line 97
LaneWidth_max(x, current_lane_width) == max(x, current_lane_width)
LaneWidth(x, current_lane_width) == min(x, current_lane_width)

\* lines 101-103
LaneDistance(lane_width) == RDiv(lane_width, 2)
PrepareWiggleRoom(lane_width) ==
  LET lane_distance == LaneDistance(lane_width)
      use_min_distance == min(lane_distance, KEEP_MIN_DISTANCE_FROM_LANE)
  IN lane_distance - use_min_distance

\* line 104
CurvePrepare_unclamped(prepare_wiggle_room, vcurv) ==
  IF prepare_wiggle_room > 0 THEN RDiv(7 * sigmoid(vcurv, 4, -500), 10) ELSE 0
CurvePrepare(prepare_wiggle_room, vcurv) ==
  IF prepare_wiggle_room > 0
  THEN clamp(RDiv(7 * sigmoid(vcurv, 4, -500), 10), -prepare_wiggle_room, prepare_wiggle_room)
  ELSE 0

\* lines 107-110
LossDamping(curve_prepare, lll_std, rll_std) ==
  IF curve_prepare > 0 /\ rll_std > 500
  THEN RDiv(curve_prepare * clamp(U - 2 * (rll_std - 500), 250, U), U)
  ELSE IF curve_prepare < 0 /\ lll_std > 500
  THEN RDiv(curve_prepare * clamp(U - 2 * (lll_std - 500), 250, U), U)
  ELSE curve_prepare

\* lines 101-110: the bias a call ends with
FinalCurvePrepare(lane_width, vcurv, lll_std, rll_std) ==
  LossDamping(CurvePrepare(PrepareWiggleRoom(lane_width), vcurv), lll_std, rll_std)

\* line 115: l + r - l * r, l and r over the same denominator
DProb(l_prob, r_prob) ==
  Rat((l_prob.n + r_prob.n) * l_prob.d - l_prob.n * r_prob.n, l_prob.d * r_prob.d)

\* line 118: safe_idxs[0] and l_prob + r_prob > 0.9 (a comparison with nan is false)
BlendGate_strict(ll_t, l_prob, r_prob) ==
  /\ isfinite(At(ll_t, 0))
  /\ l_prob.d # 0
  /\ (l_prob.n + r_prob.n) > l_prob.d
BlendGate_axis_only(ll_t, l_prob, r_prob) ==
  /\ isfinite(At(ll_t, 0))
  /\ l_prob.d # 0
BlendGate(ll_t, l_prob, r_prob) ==
  /\ isfinite(At(ll_t, 0))
  /\ l_prob.d # 0
  /\ (l_prob.n + r_prob.n) * 10 > 9 * l_prob.d

\* line 119: l_prob * path_from_left_lane + r_prob * path_from_right_lane, the
\* weights n_l / d and n_r / d
LanePathY(n_l, path_from_left_lane, n_r, path_from_right_lane, d) ==
  [i \in 1..Len(path_from_left_lane) |->
     RDiv(n_l * path_from_left_lane[i] + n_r * path_from_right_lane[i], d)]

\* line 120: the lateral column after the blend
BlendedY(lane_change_multiplier, path_t, xp, fp, y) ==
  [i \in 1..Len(y) |->
     lane_change_multiplier * np_interp(path_t[i], xp, fp)
       + (1 - lane_change_multiplier) * y[i]]

\* LanePlanner.get_d_path(v_ego, path_t, path_xyz, vcurv): the object and the
\* path it leaves, and the values of its locals
GetDPath(s, v_ego, path_t, path_xyz, vcurv) ==
  LET p == LaneProbs(s)
      l_prob == p.l_prob
      r_prob == p.r_prob
      current_lane_width == CurrentLaneWidth(s)
      x == FirstOrderFilter_update(s.lane_width_estimate, current_lane_width)
      lane_width == LaneWidth(x, current_lane_width)
      lane_distance == LaneDistance(lane_width)
      prepare_wiggle_room == PrepareWiggleRoom(lane_width)
      curve_prepare == FinalCurvePrepare(lane_width, vcurv, s.lll_std, s.rll_std)
      path_from_left_lane == shift(s.lll_y, lane_distance + curve_prepare)
      path_from_right_lane == shift(s.rll_y, -lane_distance + curve_prepare)
      safe_idxs == finite_mask(s.ll_t)
      blended == BlendGate(s.ll_t, l_prob, r_prob)
      lane_path_y == LanePathY(l_prob.n, path_from_left_lane, r_prob.n, path_from_right_lane, l_prob.d)
      y0 == [i \in 1..Len(path_xyz) |-> path_xyz[i][2]]
      y1 == IF blended
            THEN BlendedY(s.lane_change_multiplier, path_t,
                          Masked(s.ll_t, safe_idxs), Masked(lane_path_y, safe_idxs), y0)
            ELSE y0
  IN [ self |-> [s EXCEPT !.lane_width_estimate = x,
                          !.lane_width = lane_width,
                          !.d_prob = DProb(l_prob, r_prob)],
       path_xyz |-> [i \in 1..Len(path_xyz) |->
                       <<path_xyz[i][1], y1[i] + CAMERA_OFFSET, path_xyz[i][3]>>],
       total_prob |-> p.total,
       l_prob |-> l_prob,
       r_prob |-> r_prob,
       current_lane_width |-> current_lane_width,
       prepare_wiggle_room |-> prepare_wiggle_room,
       curve_prepare |-> curve_prepare,
       blended |-> blended ]

\* ------------------------------------------------- what the caller passes
VEgos == {20 * U}
VCurvs == {-1000, 0, 1000}
\* a candidate path: its times and its points <<x, y, z>>
Candidates ==
  { [path_t |-> <<450, 5450>>, path_xyz |-> <<<<9000, 25, 0>>, <<109000, 50, 0>>>>],
    [path_t |-> <<0, 3000, 12000>>,
     path_xyz |-> <<<<0, 300, 0>>, <<60000, 350, 100>>, <<240000, 500, 400>>>>] }

\* ------------------------------------------------------------ the machine
Init ==
  /\ self = LanePlanner
  /\ call = [op |-> "__init__"]
  /\ raised = "none"
  /\ cycles = 0

parse_model ==
  /\ raised = "none"
  /\ \E md \in PerceptionResults :
       LET r == ParseModel(self, md)
       IN /\ self' = r.self
          /\ raised' = r.raised
          /\ call' = [op |-> "parse_model", md |-> md]
  /\ UNCHANGED cycles

get_d_path ==
  /\ raised = "none"
  /\ cycles < MaxCycles
  /\ \E v_ego \in VEgos, c \in Candidates, vcurv \in VCurvs :
       LET r == GetDPath(self, v_ego, c.path_t, c.path_xyz, vcurv)
       IN /\ self' = r.self
          /\ call' = [ op |-> "get_d_path", v_ego |-> v_ego, path_t |-> c.path_t,
                       path_in |-> c.path_xyz, vcurv |-> vcurv,
                       path_xyz |-> r.path_xyz, total_prob |-> r.total_prob,
                       l_prob |-> r.l_prob, r_prob |-> r.r_prob,
                       current_lane_width |-> r.current_lane_width,
                       prepare_wiggle_room |-> r.prepare_wiggle_room,
                       curve_prepare |-> r.curve_prepare, blended |-> r.blended ]
  /\ cycles' = cycles + 1
  /\ UNCHANGED raised

Next == parse_model \/ get_d_path

Spec == Init /\ [][Next]_vars


\* ------------------------------------------------------------- the claims
AfterParse == call.op = "parse_model"
AfterGet == call.op = "get_d_path"

\* rightLaneY[0] - leftLaneY[0] of the geometry the last call saw
Distance == At(self.rll_y, 0) - At(self.lll_y, 0)

\* the lateral column of a path
PathY(p) == [i \in 1..Len(p) |-> p[i][2]]

\* the path as supplied, its lateral column moved by the camera offset only
OffsetOnly(p) == [i \in 1..Len(p) |-> <<p[i][1], p[i][2] + CAMERA_OFFSET, p[i][3]>>]

\* a fraction in [0, 1]
InUnit(q) == q.d > 0 /\ 0 <= q.n /\ q.n <= q.d

\* C1: after any sequence of parse_model and get_d_path calls, lane_width lies
\* in [2.6, 4.0].
C1_LaneWidthBounds == 2600 <= self.lane_width /\ self.lane_width <= 4000

\* a second cycle whose measured width (2.0 or 0.0) was clamped up to 2.6
C1_Witness ==
  /\ AfterGet
  /\ cycles >= 2
  /\ CurrentLaneWidth_unclamped(self) < 2600
  /\ self.lane_width = 2600

\* anything but two road edges of 33 samples each
EdgesMalformed(md) ==
  ~(Len(md.roadEdges) = 2 /\ \A i \in 1..2 : Len(md.roadEdges[i].t) = TRAJECTORY_SIZE)

\* C2: parse_model never raises, and a malformed road-edge set leaves the
\* road-edge sequences equal to the lane-line sequences.
C2_ParseNeverRaises ==
  AfterParse =>
    /\ raised = "none"
    /\ EdgesMalformed(call.md) => (self.le_y = self.lll_y /\ self.re_y = self.rll_y)

\* C3 as stated: with both inner confidences 0, both standard deviations >= 0.8
\* and rightLaneY[0] # leftLaneY[0], the gate fails and every output lateral
\* coordinate is the input one plus the camera offset.
C3_ZeroConfidenceFallsBack ==
  (/\ AfterGet
   /\ Distance # 0
   /\ self.lll_prob = 0 /\ self.rll_prob = 0
   /\ self.lll_std >= 800 /\ self.rll_std >= 800)
  => (~call.blended /\ call.path_xyz = OffsetOnly(call.path_in))

\* C3 as amended: whenever the weight total before normalisation is below 0.01,
\* or the first axis sample is not finite, the gate fails and the output path is
\* the input path with the camera offset added to every lateral coordinate.
C3_BlindFallsBack ==
  (/\ AfterGet
   /\ Distance # 0
   /\ (call.total_prob < Q \/ ~isfinite(At(self.ll_t, 0))))
  => (~call.blended /\ call.path_xyz = OffsetOnly(call.path_in))

\* lane-line blindness with a finite axis: the total is below 0.01
C3_Witness ==
  /\ AfterGet
  /\ Distance # 0
  /\ call.total_prob < Q
  /\ isfinite(At(self.ll_t, 0))
  /\ call.path_xyz = OffsetOnly(call.path_in)

\* C4: the curvature bias a get_d_path call ends with is at most the wiggle room
\* in magnitude, and is 0 when there is none (lane_width / 2 <= 1.3).
C4_CurvePrepareBounded ==
  AfterGet =>
    /\ abs(call.curve_prepare) <= call.prepare_wiggle_room
    /\ call.prepare_wiggle_room <= 0 => call.curve_prepare = 0
    /\ LaneDistance(self.lane_width) <= KEEP_MIN_DISTANCE_FROM_LANE => call.curve_prepare = 0

\* a bias that the clamp cut down to the wiggle room
C4_Witness ==
  /\ AfterGet
  /\ call.prepare_wiggle_room > 0
  /\ abs(call.curve_prepare) = call.prepare_wiggle_room
  /\ abs(RDiv(7 * sigmoid(call.vcurv, 4, -500), 10)) > call.prepare_wiggle_room

\* the lane-line state, and the one a perception result holds
InnerLinesValid(md) ==
  /\ Len(md.laneLines) = 4
  /\ Len(At(md.laneLines, 1).t) = TRAJECTORY_SIZE
  /\ Len(At(md.laneLines, 2).t) = TRAJECTORY_SIZE
LaneLineState(s) ==
  <<s.ll_t, s.ll_x, s.lll_y, s.rll_y, s.lll_prob, s.rll_prob, s.lll_std, s.rll_std>>
LaneLineStateOf(md) ==
  << mean2(At(md.laneLines, 1).t, At(md.laneLines, 2).t),
     At(md.laneLines, 1).x,
     shift(At(md.laneLines, 1).y, -CAMERA_OFFSET),
     shift(At(md.laneLines, 2).y, -CAMERA_OFFSET),
     At(md.laneLineProbs, 1), At(md.laneLineProbs, 2),
     At(md.laneLineStds, 1), At(md.laneLineStds, 2) >>
\* C5: parse_model overwrites the lane-line state if and only if four lane
\* lines are reported and the inner two have 33 samples; otherwise every one of
\* those fields keeps its value.
C5_OverwriteIffInnerValid ==
  [][call'.op = "parse_model" =>
       IF InnerLinesValid(call'.md)
       THEN LaneLineState(self') = LaneLineStateOf(call'.md)
       ELSE LaneLineState(self') = LaneLineState(self)]_vars

\* C6: after get_d_path on a geometry with rightLaneY[0] # leftLaneY[0], the
\* normalised weights and d_prob all lie in [0, 1].
C6_ProbabilitiesInUnitInterval ==
  (AfterGet /\ Distance # 0) =>
    (InUnit(call.l_prob) /\ InUnit(call.r_prob) /\ InUnit(self.d_prob))

\* C7 as stated: with strongly positive curvature and wiggle room, the bias with
\* rightLineStd = 0.9 is smaller in magnitude than with rightLineStd = 0.1.
C7_PositiveCurvatureDampedByRight ==
  (/\ AfterGet
   /\ call.vcurv >= 1000
   /\ call.prepare_wiggle_room > 0
   /\ self.rll_std = 900)
  => abs(call.curve_prepare)
       < abs(FinalCurvePrepare(self.lane_width, call.vcurv, self.lll_std, 100))

\* C7 as amended: with strongly negative curvature (the bias is then positive,
\* towards the right line) and wiggle room, the bias with rightLineStd = 0.9 is
\* smaller in magnitude than with rightLineStd = 0.1.
C7_NegativeCurvatureDampedByRight ==
  (/\ AfterGet
   /\ call.vcurv <= -1000
   /\ call.prepare_wiggle_room > 0
   /\ self.rll_std = 900)
  => abs(call.curve_prepare)
       < abs(FinalCurvePrepare(self.lane_width, call.vcurv, self.lll_std, 100))

C7_Witness ==
  /\ AfterGet
  /\ call.vcurv <= -1000
  /\ call.prepare_wiggle_room > 0
  /\ self.rll_std = 900
  /\ call.curve_prepare > 0

\* what the blender owns, and what it must leave alone
Smoothed(s) == <<s.lane_width_estimate, s.lane_width, s.lane_change_multiplier, s.d_prob>>
Geometry(s) ==
  << s.ll_t, s.ll_x, s.lll_y, s.rll_y, s.le_y, s.re_y, s.lll_prob, s.rll_prob,
     s.lll_std, s.rll_std, s.l_lane_change_prob, s.r_lane_change_prob,
     s.lane_change_multiplier, s.camera_offset, s.path_offset >>
\* C8: parse_model leaves the width filter, lane_width, lane_change_multiplier
\* and d_prob alone; get_d_path leaves every geometry field and
\* lane_change_multiplier alone and changes, of the path, the lateral column
\* only; lane_change_multiplier stays 1.
C8_StateOwnership ==
  [][/\ call'.op = "parse_model" => Smoothed(self') = Smoothed(self)
     /\ call'.op = "get_d_path" =>
          /\ Geometry(self') = Geometry(self)
          /\ Len(call'.path_xyz) = Len(call'.path_in)
          /\ \A i \in 1..Len(call'.path_in) :
               /\ call'.path_xyz[i][1] = call'.path_in[i][1]
               /\ call'.path_xyz[i][3] = call'.path_in[i][3]
     /\ self'.lane_change_multiplier = 1]_vars

\* a parse_model call on an object whose blender state a cycle has moved
C8_Witness ==
  /\ AfterParse
  /\ cycles >= 1
  /\ self.lane_width # 3200
  /\ self.d_prob # Rat(0, 1)
  /\ self.lll_prob > 0

\* C9: in every get_d_path cycle lane_width is the minimum of the updated
\* estimate and the cycle's clamped width: it never exceeds that width, a
\* narrowing takes effect at once and a widening only through the filter.
C9_LaneWidthIsConservative ==
  [][call'.op = "get_d_path" =>
       LET current_lane_width == call'.current_lane_width
       IN /\ self'.lane_width = min(self'.lane_width_estimate, current_lane_width)
          /\ self'.lane_width <= current_lane_width
          /\ current_lane_width <= self.lane_width_estimate
               => self'.lane_width = current_lane_width
          /\ current_lane_width > self.lane_width_estimate
               => /\ self'.lane_width = self'.lane_width_estimate
                  /\ self'.lane_width < current_lane_width]_vars

\* a second cycle of a widening that lane_width follows through the filter
C9_Witness ==
  /\ AfterGet
  /\ cycles >= 2
  /\ self.lane_width < call.current_lane_width
  /\ self.lane_width = self.lane_width_estimate
  /\ self.lane_width > 3204

\* C10: for rightLaneY[0] # leftLaneY[0] the weights sum to 0 (total before
\* normalisation below 0.01) or to 1, the blend is applied exactly when the
\* first axis sample is finite and that total is at least 0.01, and d_prob is
\* 0 in the first case and 1 - l_prob * r_prob in the second.
C10_ThresholdNeverDecides ==
  (AfterGet /\ Distance # 0) =>
    LET l == call.l_prob
        r == call.r_prob
    IN /\ call.blended <=> (isfinite(At(self.ll_t, 0)) /\ call.total_prob >= Q)
       /\ call.total_prob < Q =>
            /\ l = Rat(0, 1) /\ r = Rat(0, 1)
            /\ self.d_prob = Rat(0, 1)
       /\ call.total_prob >= Q =>
            /\ l.d = r.d /\ l.d > 0 /\ l.n + r.n = l.d
            /\ self.d_prob = Rat(l.d * r.d - l.n * r.n, l.d * r.d)

\* a blend applied although the total before normalisation is far below 0.9
C10_Witness ==
  /\ AfterGet
  /\ Distance # 0
  /\ call.blended
  /\ call.total_prob < 90 * Q
  /\ call.path_xyz # OffsetOnly(call.path_in)


====
